---- MODULE Spec2Model ----
(***************************************************************************)
(* Model of the Zenith markdown fixer (scripts/markdown): the rewrite      *)
(* rules of rules.py, and apply_rules / fix_markdown_file / main of        *)
(* __init__.py.                                                            *)
(*                                                                         *)
(* A text (Python str) is a sequence of characters; a character is a       *)
(* one-character string, except the non-ASCII code points the rules name,  *)
(* which are written as the atoms below (each is ONE character).           *)
(***************************************************************************)
EXTENDS Integers, Sequences, FiniteSets, TLC

NL == "\n"
\* U+FF0C FULLWIDTH COMMA, the split token of fix_md013_line_length
FWComma == "U+FF0C"
\* the four lead symbols of fix_md032_heading_list_spacing
Emoji == {"U+2705", "U+1F527", "U+1F680", "U+1F4CA"}

Lower == {"a","b","c","d","e","f","g","h","i","j","k","l","m",
          "n","o","p","q","r","s","t","u","v","w","x","y","z"}

\* characters str.strip() removes
Whitespace == {" ", "\t", NL, "\r", "\f"}

\* U+0060 GRAVE ACCENT, the code-fence and inline-code character
BQ == "U+0060"

Fence == <<BQ, BQ, BQ>>

(***************************************************************************)
(* Python str primitives                                                   *)
(***************************************************************************)

\* s[i-1:] (1-based i)
Drop(s, i) == SubSeq(s, i, Len(s))

\* s.startswith(p, i-1)
StartsAt(s, p, i) ==
    /\ i + Len(p) - 1 <= Len(s)
    /\ \A k \in 1..Len(p) : s[i + k - 1] = p[k]

StartsWith(s, p) == StartsAt(s, p, 1)

EndsWith(s, p) == Len(p) <= Len(s) /\ StartsAt(s, p, Len(s) - Len(p) + 1)

\* p in s
Contains(s, p) == \E i \in 1..(Len(s) + 1) : StartsAt(s, p, i)

\* s.replace(p, r) and re.sub of a literal pattern: leftmost, non-overlapping
RECURSIVE ReplaceFrom(_, _, _, _)
ReplaceFrom(s, p, r, i) ==
    IF i > Len(s) THEN <<>>
    ELSE IF StartsAt(s, p, i) THEN r \o ReplaceFrom(s, p, r, i + Len(p))
    ELSE <<s[i]>> \o ReplaceFrom(s, p, r, i + 1)

Replace(s, p, r) == ReplaceFrom(s, p, r, 1)

\* s.split(p) for a non-empty separator p: the pieces, in order
RECURSIVE SplitFrom(_, _, _, _)
SplitFrom(s, p, i, cur) ==
    IF i > Len(s) THEN <<cur>>
    ELSE IF StartsAt(s, p, i) THEN <<cur>> \o SplitFrom(s, p, i + Len(p), <<>>)
    ELSE SplitFrom(s, p, i + 1, Append(cur, s[i]))

Split(s, p) == SplitFrom(s, p, 1, <<>>)

\* p.join(parts)
RECURSIVE Join(_, _)
Join(parts, p) ==
    IF Len(parts) = 0 THEN <<>>
    ELSE IF Len(parts) = 1 THEN parts[1]
    ELSE parts[1] \o p \o Join(Tail(parts), p)

\* s.strip()
RECURSIVE LStrip(_)
LStrip(s) == IF Len(s) > 0 /\ s[1] \in Whitespace THEN LStrip(Tail(s)) ELSE s

RECURSIVE RStrip(_)
RStrip(s) ==
    IF Len(s) > 0 /\ s[Len(s)] \in Whitespace
    THEN RStrip(SubSeq(s, 1, Len(s) - 1)) ELSE s

Strip(s) == RStrip(LStrip(s))

\* length of the run of characters of set cs that starts at position i
RECURSIVE RunLen(_, _, _)
RunLen(s, cs, i) ==
    IF i <= Len(s) /\ s[i] \in cs THEN 1 + RunLen(s, cs, i + 1) ELSE 0

\* str(n) for n >= 0
Digit(d) == <<"0","1","2","3","4","5","6","7","8","9">>[d + 1]

RECURSIVE IntToStr(_)
IntToStr(n) == IF n < 10 THEN <<Digit(n)>> ELSE IntToStr(n \div 10) \o <<Digit(n % 10)>>

\* the regex $ without re.MULTILINE, before position p: the end of the text,
\* or just before a newline that is the last character
DollarAt(s, p) == p = Len(s) + 1 \/ (p = Len(s) /\ s[p] = NL)

(***************************************************************************)
(* rules.py: MarkdownFixer                                                 *)
(***************************************************************************)

\* re.sub(r'\n{3,}', r'\n\n', content)
RECURSIVE Md012From(_, _)
Md012From(s, i) ==
    IF i > Len(s) THEN <<>>
    ELSE LET n == RunLen(s, {NL}, i) IN
         IF n >= 3 THEN <<NL, NL>> \o Md012From(s, i + n)
         ELSE <<s[i]>> \o Md012From(s, i + 1)

\* a faulty fix_md012_multiple_blank_lines: the pattern \n\n\n in place of
\* \n{3,}, so a run is collapsed three newlines at a time
md012_three_at_a_time(content) == Replace(content, <<NL, NL, NL>>, <<NL, NL>>)

fix_md012_multiple_blank_lines(content) == Md012From(content, 1)

\* re.sub(r'\n+$', r'\n', content): \n+ is greedy and gives back one newline
\* at a time until $ matches
RECURSIVE SubTrailingNewlines(_, _)
SubTrailingNewlines(s, i) ==
    IF i > Len(s) THEN <<>>
    ELSE LET n == RunLen(s, {NL}, i)
             ks == {k \in 1..n : DollarAt(s, i + k)}
         IN  IF ks # {}
             THEN LET k == CHOOSE m \in ks : \A o \in ks : o <= m
                  IN  <<NL>> \o SubTrailingNewlines(s, i + k)
             ELSE <<s[i]>> \o SubTrailingNewlines(s, i + 1)

fix_md047_file_ends_newline(content) ==
    LET c == IF ~EndsWith(content, <<NL>>) THEN content \o <<NL>> ELSE content
    IN  SubTrailingNewlines(c, 1)

\* re.sub(r'\n```\n', r'\n```bash\n', content)
fix_md040_code_block_language(content) ==
    Replace(content, <<NL>> \o Fence \o <<NL>>,
            <<NL>> \o Fence \o <<"b","a","s","h">> \o <<NL>>)

\* re.sub(r'([^\n])\n(```[a-z]*\n)', r'\1\n\n\2', content)
RECURSIVE SubBlankBeforeFence(_, _)
SubBlankBeforeFence(s, i) ==
    IF i > Len(s) THEN <<>>
    ELSE LET n == RunLen(s, Lower, i + 5)
             j == i + 5 + n     \* where the closing \n of group 2 must be
         IN  IF /\ s[i] # NL
                /\ StartsAt(s, <<NL>> \o Fence, i + 1)
                /\ j <= Len(s) /\ s[j] = NL
             THEN <<s[i], NL, NL>> \o SubSeq(s, i + 2, j)
                      \o SubBlankBeforeFence(s, j + 1)
             ELSE <<s[i]>> \o SubBlankBeforeFence(s, i + 1)

fix_md031_code_blocks(content) ==
    LET c1 == SubBlankBeforeFence(content, 1)
    IN  \* re.sub(r'\n(```)\n', r'\n\1\n\n', content)
        Replace(c1, <<NL>> \o Fence \o <<NL>>, <<NL>> \o Fence \o <<NL, NL>>)

\* the regex ^ and $ under re.MULTILINE, at position i (before character i)
MCaret(s, i) == i = 1 \/ s[i - 1] = NL
MDollar(s, p) == p = Len(s) + 1 \/ (p <= Len(s) /\ s[p] = NL)

\* the loop body of fix_md001_heading_increment appends the line in both
\* branches; heading_level is written and never read
fix_md001_heading_increment(content) ==
    LET lines == Split(content, <<NL>>)
    IN  Join([k \in 1..Len(lines) |-> lines[k]], <<NL>>)

H3 == <<"#", "#", "#", " ">>
H2 == <<"#", "#", " ">>

\* the for loop of fix_md024_duplicate_headings over lines[k..]; counts is
\* the dict heading_counts (a function on the bases seen so far)
RECURSIVE Md024Loop(_, _, _)
Md024Loop(lines, k, counts) ==
    IF k > Len(lines) THEN <<>>
    ELSE LET line == lines[k] IN
         IF StartsWith(line, H3)
         THEN LET base == Strip(Replace(Replace(line, H3, <<>>), <<":">>, <<>>)) IN
              IF base \in DOMAIN counts
              THEN LET n == counts[base] + 1 IN
                   <<H3 \o base \o <<" ", "(">> \o IntToStr(n) \o <<")">> >>
                       \o Md024Loop(lines, k + 1, [counts EXCEPT ![base] = n])
              ELSE <<line>> \o Md024Loop(lines, k + 1,
                       [b \in DOMAIN counts \cup {base} |->
                            IF b = base THEN 1 ELSE counts[b]])
         ELSE <<line>> \o Md024Loop(lines, k + 1, counts)

\* a faulty fix_md024_duplicate_headings: the first occurrence is counted as
\* 0, so the second heading becomes '### T (1)'
RECURSIVE Md024LoopFromZero(_, _, _)
Md024LoopFromZero(lines, k, counts) ==
    IF k > Len(lines) THEN <<>>
    ELSE LET line == lines[k] IN
         IF StartsWith(line, H3)
         THEN LET base == Strip(Replace(Replace(line, H3, <<>>), <<":">>, <<>>)) IN
              IF base \in DOMAIN counts
              THEN LET n == counts[base] + 1 IN
                   <<H3 \o base \o <<" ", "(">> \o IntToStr(n) \o <<")">> >>
                       \o Md024LoopFromZero(lines, k + 1, [counts EXCEPT ![base] = n])
              ELSE <<line>> \o Md024LoopFromZero(lines, k + 1,
                       [b \in DOMAIN counts \cup {base} |->
                            IF b = base THEN 0 ELSE counts[b]])
         ELSE <<line>> \o Md024LoopFromZero(lines, k + 1, counts)

md024_counts_from_zero(content) ==
    Join(Md024LoopFromZero(Split(content, <<NL>>), 1, <<>>), <<NL>>)

fix_md024_duplicate_headings(content) ==
    Join(Md024Loop(Split(content, <<NL>>), 1, <<>>), <<NL>>)

\* one line under re.sub(r'^(MARK[^:\n]+):$', r'\1', flags=re.MULTILINE),
\* MARK being '### ' or '## ': neither ^, [^:\n]+ nor $ lets a match leave
\* its line
StripHeadingColon(line, mark) ==
    IF /\ StartsWith(line, mark)
       /\ Len(line) >= Len(mark) + 2
       /\ line[Len(line)] = ":"
       /\ \A k \in (Len(mark) + 1)..(Len(line) - 1) : line[k] # ":"
    THEN SubSeq(line, 1, Len(line) - 1)
    ELSE line

\* one pattern of fix_md026_trailing_punctuation on every line of the content
SubHeadingColon(content, mark) ==
    LET lines == Split(content, <<NL>>)
    IN  Join([k \in 1..Len(lines) |-> StripHeadingColon(lines[k], mark)], <<NL>>)

fix_md026_trailing_punctuation(content) ==
    SubHeadingColon(SubHeadingColon(content, H3), H2)

fix_md027_asterisk_blocks(content) == content

fix_md028_blank_line_after_blockquotes(content) == content

\* one line under re.sub(r'^  M ', r'M ', flags=re.MULTILINE), M being - or *
UnindentMarker(line, m) ==
    IF StartsWith(line, <<" ", " ", m, " ">>) THEN Drop(line, 3) ELSE line

\* one substitution of fix_md030_list_markers on every line of the content
SubUnindent(content, m) ==
    LET lines == Split(content, <<NL>>)
    IN  Join([k \in 1..Len(lines) |-> UnindentMarker(lines[k], m)], <<NL>>)

fix_md030_list_markers(content) == SubUnindent(SubUnindent(content, "-"), "*")

\* Where group 1 of a fix_md032_heading_list_spacing pattern ends when it is
\* matched at position i (the position just after it), 0 when it does not
\* match there.  kind "h3": (### [^\n]+), "h2": (## [^\n]+),
\* "bold": (\*\*[^\n]+\*\*).  In each pattern \n follows group 1, so the
\* greedy [^\n]+ runs to the end of the line.
HeadEnd(s, i, kind) ==
    LET mark == CASE kind = "h3" -> H3
                  [] kind = "h2" -> H2
                  [] OTHER      -> <<"*", "*">>
        from == i + Len(mark)
        n    == RunLen(s, {s[k] : k \in 1..Len(s)} \ {NL}, from)
        e    == from + n
    IN  IF ~StartsAt(s, mark, i) THEN 0
        ELSE IF kind = "bold"
             THEN IF n >= 3 /\ StartsAt(s, <<"*", "*">>, e - 2) THEN e ELSE 0
             ELSE IF n >= 1 THEN e ELSE 0

\* re.sub(r'(HEAD)\n(- [E])', r'\1\n\n\2', content), E one of the four symbols
RECURSIVE SubBlankBeforeList(_, _, _)
SubBlankBeforeList(s, i, kind) ==
    IF i > Len(s) THEN <<>>
    ELSE LET e == HeadEnd(s, i, kind) IN
         IF /\ e # 0
            /\ StartsAt(s, <<NL, "-", " ">>, e)
            /\ e + 3 <= Len(s) /\ s[e + 3] \in Emoji
         THEN SubSeq(s, i, e - 1) \o <<NL, NL>> \o SubSeq(s, e + 1, e + 3)
                  \o SubBlankBeforeList(s, e + 4, kind)
         ELSE <<s[i]>> \o SubBlankBeforeList(s, i + 1, kind)

fix_md032_heading_list_spacing(content) ==
    LET c1 == SubBlankBeforeList(content, 1, "h3")
        c2 == SubBlankBeforeList(c1, 1, "h2")
    IN  SubBlankBeforeList(c2, 1, "bold")

fix_md033_no_inline_html(content) == content

\* a character (?:[^*]|\*(?!\*)) matches at position k
BoldBodyChar(s, k) ==
    /\ k <= Len(s)
    /\ s[k] # "*" \/ ~(k + 1 <= Len(s) /\ s[k + 1] = "*")

RECURSIVE BoldBodyRun(_, _)
BoldBodyRun(s, k) == IF BoldBodyChar(s, k) THEN 1 + BoldBodyRun(s, k + 1) ELSE 0

Largest(S) == CHOOSE m \in S : \A o \in S : o <= m

\* re.sub(r'^(\*\*(?:[^*]|\*(?!\*))+ \*\*)$', r'### \1', flags=re.MULTILINE):
\* the body is greedy and is given back one character at a time
RECURSIVE SubBoldSpaced(_, _)
SubBoldSpaced(s, i) ==
    IF i > Len(s) THEN <<>>
    ELSE LET ms == {m \in 1..BoldBodyRun(s, i + 2) :
                       /\ StartsAt(s, <<" ", "*", "*">>, i + 2 + m)
                       /\ MDollar(s, i + 5 + m)}
         IN  IF MCaret(s, i) /\ StartsAt(s, <<"*", "*">>, i) /\ ms # {}
             THEN LET e == i + 5 + Largest(ms) IN
                  H3 \o SubSeq(s, i, e - 1) \o SubBoldSpaced(s, e)
             ELSE <<s[i]>> \o SubBoldSpaced(s, i + 1)

\* re.sub(r'^OPEN([^X]+)CLOSE$', r'### \1', flags=re.MULTILINE): OPEN/CLOSE
\* are ** and ** with X = *, or <strong> and </strong> with X = <
RECURSIVE SubWrapped(_, _, _, _, _)
SubWrapped(s, i, open, close, x) ==
    IF i > Len(s) THEN <<>>
    ELSE LET from == i + Len(open)
             n    == RunLen(s, {s[k] : k \in 1..Len(s)} \ {x}, from)
             e    == from + n + Len(close)
         IN  IF /\ MCaret(s, i) /\ StartsAt(s, open, i)
                /\ n >= 1 /\ StartsAt(s, close, from + n)
                /\ MDollar(s, e)
             THEN H3 \o SubSeq(s, from, from + n - 1)
                     \o SubWrapped(s, e, open, close, x)
             ELSE <<s[i]>> \o SubWrapped(s, i + 1, open, close, x)

fix_md036_emphasis_heading(content) ==
    LET c1 == SubBoldSpaced(content, 1)
        c2 == SubWrapped(c1, 1, <<"*", "*">>, <<"*", "*">>, "*")
    IN  SubWrapped(c2, 1, <<"<","s","t","r","o","n","g",">">>,
                   <<"<","/","s","t","r","o","n","g",">">>, "<")

ImgOpen == <<"<","i","m","g"," ","s","r","c","=","\"">>
ImgWidth == <<"\""," ","w","i","d","t","h","=","\"","6","4","\"">>

\* re.sub(r'<img src="([^"]+)" width="64">', r'<img src="\1" width="64" alt="">')
RECURSIVE SubImgAlt(_, _)
SubImgAlt(s, i) ==
    IF i > Len(s) THEN <<>>
    ELSE LET from == i + Len(ImgOpen)
             n    == RunLen(s, {s[k] : k \in 1..Len(s)} \ {"\""}, from)
             e    == from + n + Len(ImgWidth) + 1
         IN  IF /\ StartsAt(s, ImgOpen, i) /\ n >= 1
                /\ StartsAt(s, ImgWidth \o <<">">>, from + n)
             THEN SubSeq(s, i, e - 2)
                      \o <<" ","a","l","t","=","\"","\"",">">>
                      \o SubImgAlt(s, e)
             ELSE <<s[i]>> \o SubImgAlt(s, i + 1)

fix_md045_image_alt_text(content) == SubImgAlt(content, 1)

\* the (pattern, replacement) list of fix_md051_link_fragments; every pattern
\* is a literal once its escapes are read
LinkFixes == <<
    <<<<"[","U","s","a","g","e"," ","&"," ","F","e","a","t","u","r","e",
        "s","]","(","#","u","s","a","g","e"," ","&"," ","f","e","a","t",
        "u","r","e","s",")">>,
      <<"[","U","s","a","g","e"," ","&"," ","F","e","a","t","u","r","e",
        "s","]","(","#","u","s","a","g","e","-","-","-","f","e","a","t",
        "u","r","e","s",")">>>>,
    <<<<"[","P","e","r","f","o","r","m","a","n","c","e","]","(","#","p",
        "e","r","f","o","r","m","a","n","c","e",")">>,
      <<"[","P","e","r","f","o","r","m","a","n","c","e","]","(","#","p",
        "e","r","f","o","r","m","a","n","c","e","-","1",")">>>>,
    <<<<"[","S","e","c","u","r","i","t","y","]","(","#","s","e","c","u",
        "r","i","t","y",")">>,
      <<"[","S","e","c","u","r","i","t","y","]","(","#","s","e","c","u",
        "r","i","t","y","-","1",")">>>>,
    <<<<"[","T","r","o","u","b","l","e","s","h","o","o","t","i","n","g",
        "]","(","#","t","r","o","u","b","l","e","s","h","o","o","t","i",
        "n","g",")">>,
      <<"[","T","r","o","u","b","l","e","s","h","o","o","t","i","n","g",
        "]","(","#","t","r","o","u","b","l","e","s","h","o","o","t","i",
        "n","g","-","1",")">>>>,
    <<<<"[","C","o","n","t","r","i","b","u","t","i","n","g","]","(","#",
        "c","o","n","t","r","i","b","u","t","i","n","g",")">>,
      <<"[","C","o","n","t","r","i","b","u","t","i","n","g","]","(","#",
        "c","o","n","t","r","i","b","u","t","i","n","g","-","1",")">>>>,
    <<<<"[","L","i","c","e","n","s","i","n","g","]","(","#","l","i","c",
        "e","n","s","i","n","g",")">>,
      <<"[","L","i","c","e","n","s","i","n","g","]","(","#","l","i","c",
        "e","n","s","i","n","g","-","1",")">>>>
>>

RECURSIVE Md051Loop(_, _)
Md051Loop(content, k) ==
    IF k > Len(LinkFixes) THEN content
    ELSE Md051Loop(Replace(content, LinkFixes[k][1], LinkFixes[k][2]), k + 1)

fix_md051_link_fragments(content) == Md051Loop(content, 1)

\* the inner loop of fix_md013_line_length over parts[k..]: sep is the split
\* token and seplen the number the code adds for it (1 for the wide comma,
\* 2 for '. '); the lines appended to new_lines, the last being current
RECURSIVE Md013Parts(_, _, _, _, _, _)
Md013Parts(parts, k, current, sep, seplen, max_len) ==
    IF k > Len(parts) THEN <<current>>
    ELSE LET part == parts[k] IN
         IF Len(current) + Len(part) + seplen <= max_len
         THEN Md013Parts(parts, k + 1, current \o sep \o part, sep, seplen, max_len)
         ELSE <<current>> \o Md013Parts(parts, k + 1,
                  <<" ", " ">> \o sep \o Strip(part), sep, seplen, max_len)

\* the lines one input line becomes in fix_md013_line_length
Md013Line(line, max_len) ==
    IF Len(line) > max_len /\ ~Contains(line, <<"|">>) /\ ~Contains(line, <<BQ>>)
    THEN IF Contains(line, <<FWComma>>)
         THEN LET parts == Split(line, <<FWComma>>) IN
              Md013Parts(parts, 2, parts[1], <<FWComma>>, 1, max_len)
         ELSE IF Contains(line, <<".", " ">>)
         THEN LET parts == Split(line, <<".", " ">>) IN
              Md013Parts(parts, 2, parts[1], <<".", " ">>, 2, max_len)
         ELSE <<line>>
    ELSE <<line>>

RECURSIVE Md013Lines(_, _)
Md013Lines(lines, max_len) ==
    IF lines = <<>> THEN <<>>
    ELSE Md013Line(lines[1], max_len) \o Md013Lines(Tail(lines), max_len)

fix_md013_line_length(content, max_len) ==
    Join(Md013Lines(Split(content, <<NL>>), max_len), <<NL>>)

\* the default of the max_len parameter
DefaultMaxLen == 120

\* rule sets of rules.py; a rule is named by its code
CONTRIBUTING_RULES == <<"MD026", "MD013", "MD012", "MD040", "MD047", "MD030", "MD031">>

FAQ_RULES == <<"MD036", "MD032", "MD040", "MD024", "MD012", "MD047", "MD051">>

PRD_RULES == <<"MD030", "MD012", "MD031", "MD013", "MD047">>

\* rule(content) for the MarkdownFixer static method the code names
CallRule(rule, content) ==
    CASE rule = "MD001" -> fix_md001_heading_increment(content)
      [] rule = "MD012" -> fix_md012_multiple_blank_lines(content)
      [] rule = "MD013" -> fix_md013_line_length(content, DefaultMaxLen)
      [] rule = "MD024" -> fix_md024_duplicate_headings(content)
      [] rule = "MD026" -> fix_md026_trailing_punctuation(content)
      [] rule = "MD027" -> fix_md027_asterisk_blocks(content)
      [] rule = "MD028" -> fix_md028_blank_line_after_blockquotes(content)
      [] rule = "MD030" -> fix_md030_list_markers(content)
      [] rule = "MD031" -> fix_md031_code_blocks(content)
      [] rule = "MD032" -> fix_md032_heading_list_spacing(content)
      [] rule = "MD033" -> fix_md033_no_inline_html(content)
      [] rule = "MD036" -> fix_md036_emphasis_heading(content)
      [] rule = "MD040" -> fix_md040_code_block_language(content)
      [] rule = "MD045" -> fix_md045_image_alt_text(content)
      [] rule = "MD047" -> fix_md047_file_ends_newline(content)
      [] rule = "MD051" -> fix_md051_link_fragments(content)

(***************************************************************************)
(* __init__.py                                                             *)
(***************************************************************************)

\* an Optional value: None, or Some(v)
None == <<>>
Some(v) == <<v>>

\* the document names of DOCUMENT_RULES, in the order of the dict literal
DocumentKeys ==
    <<"CONTRIBUTING.md", "FAQ.md", "prd.md", "USER_GUIDE.md", "API_REFERENCE.md">>

DOCUMENT_RULES ==
    [name \in {DocumentKeys[k] : k \in 1..Len(DocumentKeys)} |->
        CASE name = "CONTRIBUTING.md"  -> CONTRIBUTING_RULES
          [] name = "FAQ.md"           -> FAQ_RULES
          [] name = "prd.md"           -> PRD_RULES
          [] name = "USER_GUIDE.md"    -> <<"MD012", "MD047">>
          [] name = "API_REFERENCE.md" -> <<"MD012", "MD047">>]

\* DOCUMENT_RULES.get(name, default)
DictGet(d, key, default) == IF key \in DOMAIN d THEN d[key] ELSE default

\* for rule in rules: content = rule(content), from rules[k] on
RECURSIVE ApplyRulesFrom(_, _, _)
ApplyRulesFrom(content, rules, k) ==
    IF k > Len(rules) THEN content
    ELSE ApplyRulesFrom(CallRule(rules[k], content), rules, k + 1)

\* a faulty apply_rules: every rule is given the original content, so the
\* result is the last rule's output on it
apply_rules_on_original(content, rules) ==
    IF rules = <<>> THEN content ELSE CallRule(rules[Len(rules)], content)

apply_rules(content, rules) == ApplyRulesFrom(content, rules, 1)

\* a faulty fix_markdown_file: the file is written, and True returned, whether
\* or not the content changed
fix_markdown_file_always_writes(fsys, file_path, rules) ==
    IF file_path \notin DOMAIN fsys
    THEN [ret |-> FALSE, fs |-> fsys, used |-> None, status |-> "not found",
          ops |-> <<"exists">>]
    ELSE LET original_content == fsys[file_path]
             resolved == IF rules = None
                         THEN DictGet(DOCUMENT_RULES, file_path.name,
                                      <<"MD012", "MD047">>)
                         ELSE rules[1]
             content == apply_rules(original_content, resolved)
         IN  [ret |-> TRUE, fs |-> [fsys EXCEPT ![file_path] = content],
              used |-> Some(resolved), status |-> "fixed",
              ops |-> <<"exists", "read_text", "write_text">>]

\* a faulty fix_markdown_file: "if not rules" in place of "if rules is None",
\* so an empty rule list is resolved by name like None
fix_markdown_file_empty_as_none(fsys, file_path, rules) ==
    IF file_path \notin DOMAIN fsys
    THEN [ret |-> FALSE, fs |-> fsys, used |-> None, status |-> "not found",
          ops |-> <<"exists">>]
    ELSE LET original_content == fsys[file_path]
             resolved == IF rules = None \/ rules = Some(<<>>)
                         THEN DictGet(DOCUMENT_RULES, file_path.name,
                                      <<"MD012", "MD047">>)
                         ELSE rules[1]
             content == apply_rules(original_content, resolved)
         IN  IF content # original_content
             THEN [ret |-> TRUE, fs |-> [fsys EXCEPT ![file_path] = content],
                   used |-> Some(resolved), status |-> "fixed",
                   ops |-> <<"exists", "read_text", "write_text">>]
             ELSE [ret |-> FALSE, fs |-> fsys,
                   used |-> Some(resolved), status |-> "no changes",
                   ops |-> <<"exists", "read_text">>]

\* A file system maps the paths that exist to their contents; a path is
\* [dir, name], name being Path.name.
\* fix_markdown_file(file_path, rules) on file system fsys, rules an Optional
\* rule list: the value returned, the file system left, the rule list handed
\* to apply_rules (None when that is not reached), the status line printed
\* and the file operations made, in order.
fix_markdown_file(fsys, file_path, rules) ==
    IF file_path \notin DOMAIN fsys
    THEN [ret |-> FALSE, fs |-> fsys, used |-> None, status |-> "not found",
          ops |-> <<"exists">>]
    ELSE LET original_content == fsys[file_path]
             resolved == IF rules = None
                         THEN DictGet(DOCUMENT_RULES, file_path.name,
                                      <<"MD012", "MD047">>)
                         ELSE rules[1]
             content == apply_rules(original_content, resolved)
         IN  IF content # original_content
             THEN [ret |-> TRUE, fs |-> [fsys EXCEPT ![file_path] = content],
                   used |-> Some(resolved), status |-> "fixed",
                   ops |-> <<"exists", "read_text", "write_text">>]
             ELSE [ret |-> FALSE, fs |-> fsys,
                   used |-> Some(resolved), status |-> "no changes",
                   ops |-> <<"exists", "read_text">>]

(***************************************************************************)
(* Bounds and input sets                                                   *)
(***************************************************************************)

\* longest file content of a batch run, over DocAlphabet
DocLen == 3
\* longest file content of a direct fix_markdown_file call and longest
\* apply_rules input, over FenceAlphabet
CallLen == 5
\* most files on the command line
MaxFiles == 2
\* most consecutive fix_markdown_file calls on one file
MaxCalls == 2
\* longest rule list handed to apply_rules directly
MaxRules == 2
\* longest text the blank-line rules are run on
BlankLen == 9
\* longest text the code-fence rules are run on
FenceLen == 8
\* longest line the line-length rule is run on
WrapLen == 5
\* most lines of a document the duplicate-heading rule is run on
MaxLines == 5

DocAlphabet == {"a", NL}
FenceAlphabet == {"a", NL, BQ}
WrapAlphabet == {"a", " ", ".", FWComma, "|"}
\* the values of max_len the line-length rule is run with
WrapMaxLens == {3, 4}

\* every text over alphabet of at most n characters
Texts(alphabet, n) == UNION {[1..k -> alphabet] : k \in 0..n}

\* every list over set S of lo to hi elements
Lists(S, lo, hi) == UNION {[1..k -> S] : k \in lo..hi}

Range(seq) == {seq[k] : k \in 1..Len(seq)}

Path(dir, name) == [dir |-> dir, name |-> name]

\* docs_dir / name for the registered names, in DOCUMENT_RULES.keys() order
DocPaths == [k \in 1..Len(DocumentKeys) |-> Path("docs", DocumentKeys[k])]

\* paths given on the command line
ArgPaths == {Path("docs", "FAQ.md"), Path("docs", "prd.md"),
             Path(".", "notes.md"), Path(".", "faq.md")}

\* paths fix_markdown_file is called on directly
CallPaths == ArgPaths \cup {Path("docs", "CONTRIBUTING.md"),
                            Path("docs", "USER_GUIDE.md")}

\* the choices of --rules
RuleChoices == {"CONTRIBUTING", "FAQ", "PRD"}

\* headings and other lines the duplicate-heading rule is run on
Titles == {<<"F","o","o">>, <<"a"," ","b">>, <<"T"," ","(","2",")">>}
OtherLines == {<<>>, <<"x">>, <<"#","#"," ","F","o","o">>,
               <<"#","#","#","#"," ","F","o","o">>}

(***************************************************************************)
(* State                                                                   *)
(***************************************************************************)

VARIABLES
    fs,             \* the file system
    argv,           \* main: the parsed arguments (check, all, files, rules)
    pc,             \* where the program is
    files_to_fix,   \* main
    global_rules,   \* main: Optional rule list
    idx,            \* main: the loop is about to take files_to_fix[idx]
    fixed_count,    \* main
    call,           \* a direct fix_markdown_file call: its path and rules
    calls,          \* the fix_markdown_file calls made so far, in order
    fn,             \* the function called on a text: a rule code or apply_rules
    content,        \* its argument
    rules,          \* its rule list (apply_rules)
    max_len,        \* its max_len (fix_md013_line_length)
    result,         \* what the last call returned
    prev,           \* what the call before the last returned
    passes          \* how many times it was called: on content, then on
                    \* what it returned

vars == <<fs, argv, pc, files_to_fix, global_rules, idx, fixed_count, call,
          calls, fn, content, rules, max_len, result, prev, passes>>

driver_vars == <<fs, argv, pc, files_to_fix, global_rules, idx, fixed_count,
                 call, calls>>

text_vars == <<fn, content, rules, max_len, result, prev, passes>>

NoArgs == [check |-> FALSE, all |-> FALSE, files |-> <<>>, rules |-> None]
NoCall == [path |-> Path(".", "notes.md"), rules |-> None]

\* no text function is under call
TextIdle ==
    /\ fn = "none" /\ content = <<>> /\ rules = <<>> /\ max_len = DefaultMaxLen
    /\ result = <<>> /\ prev = <<>> /\ passes = 0

\* the driver is not running
DriverIdle ==
    /\ fs = <<>> /\ argv = NoArgs /\ pc = "idle" /\ files_to_fix = <<>>
    /\ global_rules = None /\ idx = 1 /\ fixed_count = 0 /\ call = NoCall
    /\ calls = <<>>

\* the record of one fix_markdown_file call: its arguments, the content the
\* file had before and after it (None: no file) and what the call did
CallRecord(file_path, given, before, r) ==
    [path |-> file_path, given |-> given,
     before |-> IF file_path \in DOMAIN before THEN Some(before[file_path]) ELSE None,
     after |-> IF file_path \in DOMAIN r.fs THEN Some(r.fs[file_path]) ELSE None,
     used |-> r.used, status |-> r.status, ret |-> r.ret, ops |-> r.ops]

(***************************************************************************)
(* main                                                                    *)
(***************************************************************************)

\* if args.check: sys.exit(0)
main_check ==
    /\ pc = "main" /\ argv.check
    /\ pc' = "exit 0"
    /\ UNCHANGED <<fs, argv, files_to_fix, global_rules, idx, fixed_count, call, calls>>
    /\ UNCHANGED text_vars

\* rules_map[args.rules], or None without --rules
GlobalRules(choice) ==
    IF choice # None
    THEN LET rules_map ==
                 [c \in RuleChoices |->
                     CASE c = "CONTRIBUTING" -> DictGet(DOCUMENT_RULES, "CONTRIBUTING.md", <<>>)
                       [] c = "FAQ"          -> DictGet(DOCUMENT_RULES, "FAQ.md", <<>>)
                       [] c = "PRD"          -> DictGet(DOCUMENT_RULES, "prd.md", <<>>)]
         IN  Some(rules_map[choice[1]])
    ELSE None

\* --all: the registered documents that exist in docs/
main_all ==
    /\ pc = "main" /\ ~argv.check /\ argv.all
    /\ files_to_fix' = SelectSeq(DocPaths, LAMBDA p : p \in DOMAIN fs)
    /\ global_rules' = GlobalRules(argv.rules)
    /\ fixed_count' = 0 /\ idx' = 1
    /\ pc' = "loop"
    /\ UNCHANGED <<fs, argv, call, calls>>
    /\ UNCHANGED text_vars

\* the files of the command line
main_files ==
    /\ pc = "main" /\ ~argv.check /\ ~argv.all /\ argv.files # <<>>
    /\ files_to_fix' = argv.files
    /\ global_rules' = GlobalRules(argv.rules)
    /\ fixed_count' = 0 /\ idx' = 1
    /\ pc' = "loop"
    /\ UNCHANGED <<fs, argv, call, calls>>
    /\ UNCHANGED text_vars

\* parser.print_help(); sys.exit(1)
main_usage ==
    /\ pc = "main" /\ ~argv.check /\ ~argv.all /\ argv.files = <<>>
    /\ pc' = "exit 1"
    /\ UNCHANGED <<fs, argv, files_to_fix, global_rules, idx, fixed_count, call, calls>>
    /\ UNCHANGED text_vars

\* the rule list main hands to fix_markdown_file for file_path
MainRules(file_path, globals) ==
    IF globals = None
    THEN DictGet(DOCUMENT_RULES, file_path.name, <<"MD012", "MD047">>)
    ELSE globals[1]

\* a faulty loop: a missing file ends the batch
main_loop_stops_at_missing ==
    /\ pc = "loop" /\ idx <= Len(files_to_fix)
    /\ LET file_path == files_to_fix[idx]
           given == Some(MainRules(file_path, global_rules))
           r == fix_markdown_file(fs, file_path, given)
       IN  /\ fs' = r.fs
           /\ fixed_count' = IF r.ret THEN fixed_count + 1 ELSE fixed_count
           /\ calls' = Append(calls, CallRecord(file_path, given, fs, r))
           /\ idx' = IF r.status = "not found" THEN Len(files_to_fix) + 1 ELSE idx + 1
    /\ UNCHANGED <<argv, pc, files_to_fix, global_rules, call>>
    /\ UNCHANGED text_vars

\* one iteration of for file_path in files_to_fix
main_loop ==
    /\ pc = "loop" /\ idx <= Len(files_to_fix)
    /\ LET file_path == files_to_fix[idx]
           given == Some(MainRules(file_path, global_rules))
           r == fix_markdown_file(fs, file_path, given)
       IN  /\ fs' = r.fs
           /\ fixed_count' = IF r.ret THEN fixed_count + 1 ELSE fixed_count
           /\ calls' = Append(calls, CallRecord(file_path, given, fs, r))
    /\ idx' = idx + 1
    /\ UNCHANGED <<argv, pc, files_to_fix, global_rules, call>>
    /\ UNCHANGED text_vars

\* the loop is over: print(f"Completed: {fixed_count} file(s) fixed")
main_completed ==
    /\ pc = "loop" /\ idx > Len(files_to_fix)
    /\ pc' = "done"
    /\ UNCHANGED <<fs, argv, files_to_fix, global_rules, idx, fixed_count, call, calls>>
    /\ UNCHANGED text_vars

\* fix_markdown_file(call.path, call.rules), called by a client of the module
call_fix_markdown_file ==
    /\ pc = "call" /\ Len(calls) < MaxCalls
    /\ LET r == fix_markdown_file(fs, call.path, call.rules)
       IN  /\ fs' = r.fs
           /\ calls' = Append(calls, CallRecord(call.path, call.rules, fs, r))
    /\ UNCHANGED <<argv, pc, files_to_fix, global_rules, idx, fixed_count, call>>
    /\ UNCHANGED text_vars

(***************************************************************************)
(* Calls of one rule, and of apply_rules, on a text                        *)
(***************************************************************************)

RuleCodes == {"MD001", "MD012", "MD013", "MD024", "MD026", "MD027", "MD028",
              "MD030", "MD031", "MD032", "MD033", "MD036", "MD040", "MD045",
              "MD047", "MD051"}

\* rule(content), or fix_md013_line_length(content, max_len)
CallRuleWith(rule, text, len) ==
    IF rule = "MD013" THEN fix_md013_line_length(text, len) ELSE CallRule(rule, text)

call_rule ==
    /\ fn \in RuleCodes /\ passes = 0
    /\ result' = CallRuleWith(fn, content, max_len)
    /\ passes' = 1
    /\ UNCHANGED <<fn, content, rules, max_len, prev>>
    /\ UNCHANGED driver_vars

\* the rule again, on what it returned
recall_rule ==
    /\ fn \in RuleCodes /\ passes = 1
    /\ prev' = result
    /\ result' = CallRuleWith(fn, result, max_len)
    /\ passes' = 2
    /\ UNCHANGED <<fn, content, rules, max_len>>
    /\ UNCHANGED driver_vars

call_apply_rules ==
    /\ fn = "apply_rules" /\ passes = 0
    /\ result' = apply_rules(content, rules)
    /\ passes' = 1
    /\ UNCHANGED <<fn, content, rules, max_len, prev>>
    /\ UNCHANGED driver_vars

(***************************************************************************)
(* Specifications                                                          *)
(***************************************************************************)

\* the files of paths that exist, each holding text x
Files(paths, x) == [p \in paths |-> x]

InitMain ==
    /\ pc = "main"
    /\ \E x \in Texts(DocAlphabet, DocLen), choice \in {None} \cup {Some(c) : c \in RuleChoices} :
          \/ \* --check
             /\ argv \in [check : {TRUE}, all : BOOLEAN,
                          files : Lists(ArgPaths, 0, 1), rules : {choice}]
             /\ fs = Files(Range(argv.files), x)
          \/ \* --all
             /\ argv \in [check : {FALSE}, all : {TRUE},
                          files : {<<>>}, rules : {choice}]
             /\ \E there \in SUBSET Range(DocPaths) : fs = Files(there, x)
          \/ \* files, or nothing
             /\ argv \in [check : {FALSE}, all : {FALSE},
                          files : Lists(ArgPaths, 0, MaxFiles), rules : {choice}]
             /\ \E there \in SUBSET Range(argv.files) : fs = Files(there, x)
    /\ files_to_fix = <<>> /\ global_rules = None /\ idx = 1 /\ fixed_count = 0
    /\ call = NoCall /\ calls = <<>>
    /\ TextIdle

InitCall ==
    /\ pc = "call"
    /\ call \in [path : CallPaths,
                 rules : {None, Some(<<>>), Some(CONTRIBUTING_RULES),
                          Some(FAQ_RULES), Some(PRD_RULES)}]
    /\ \/ fs = <<>>
       \/ \E x \in Texts(FenceAlphabet, CallLen) : fs = Files({call.path}, x)
    /\ argv = NoArgs /\ files_to_fix = <<>> /\ global_rules = None
    /\ idx = 1 /\ fixed_count = 0 /\ calls = <<>>
    /\ TextIdle

Init == InitMain \/ InitCall

Next ==
    \/ main_check \/ main_all \/ main_files \/ main_usage
    \/ main_loop \/ main_completed
    \/ call_fix_markdown_file

Spec == Init /\ [][Next]_vars

\* apply_rules on a text and a rule list
InitApply ==
    /\ DriverIdle
    /\ fn = "apply_rules"
    /\ content \in Texts(FenceAlphabet, CallLen)
    /\ rules \in Lists({"MD012", "MD031", "MD040", "MD047"}, 0, MaxRules)
    /\ max_len = DefaultMaxLen /\ result = <<>> /\ prev = <<>> /\ passes = 0

SpecApply == InitApply /\ [][call_apply_rules]_vars

\* the blank-line rules
InitBlank ==
    /\ DriverIdle
    /\ fn \in {"MD012", "MD047"}
    /\ content \in Texts(DocAlphabet, BlankLen)
    /\ rules = <<>> /\ max_len = DefaultMaxLen /\ result = <<>> /\ prev = <<>> /\ passes = 0

NextRule == call_rule \/ recall_rule

SpecBlank == InitBlank /\ [][NextRule]_vars

\* the code-fence rules
InitFence ==
    /\ DriverIdle
    /\ fn \in {"MD031", "MD040"}
    /\ content \in Texts(FenceAlphabet, FenceLen)
    /\ rules = <<>> /\ max_len = DefaultMaxLen /\ result = <<>> /\ prev = <<>> /\ passes = 0

SpecFence == InitFence /\ [][NextRule]_vars

\* the line-length rule, on one line
InitWrap ==
    /\ DriverIdle
    /\ fn = "MD013"
    /\ content \in Texts(WrapAlphabet, WrapLen)
    /\ max_len \in WrapMaxLens
    /\ rules = <<>> /\ result = <<>> /\ prev = <<>> /\ passes = 0

SpecWrap == InitWrap /\ [][NextRule]_vars

\* the duplicate-heading rule, on documents whose level-3 headings are all
\* the line '### T'
InitHeadings ==
    /\ DriverIdle
    /\ fn = "MD024"
    /\ \E t \in Titles :
          \E lines \in Lists({H3 \o t} \cup OtherLines, 1, MaxLines) :
              /\ H3 \o t \in Range(lines)
              /\ content = Join(lines, <<NL>>)
    /\ rules = <<>> /\ max_len = DefaultMaxLen /\ result = <<>> /\ prev = <<>> /\ passes = 0

SpecHeadings == InitHeadings /\ [][NextRule]_vars

(***************************************************************************)
(* Properties                                                              *)
(***************************************************************************)

Wrote(c) == "write_text" \in Range(c.ops)

\* C1: one fix_markdown_file call.  On a path that does not exist nothing is
\* read, transformed or written and the result is False.  On a file that
\* exists the file is written, with the transformed content and result True,
\* exactly when the transformed content differs from the original; otherwise
\* the file is left as it was and the result is False.
C1_FixMarkdownFileContract ==
    \A k \in 1..Len(calls) :
        LET c == calls[k] IN
        IF c.before = None
        THEN /\ ~c.ret
             /\ c.ops = <<"exists">>
             /\ c.used = None
             /\ c.after = None
        ELSE LET original == c.before[1]
                 transformed == apply_rules(original, c.used[1])
             IN  /\ Wrote(c) <=> transformed # original
                 /\ c.ret <=> Wrote(c)
                 /\ Wrote(c) => c.after = Some(transformed) /\ c.status = "fixed"
                 /\ ~Wrote(c) => c.after = c.before /\ c.status = "no changes"

\* a file was written by one call, and left alone by the next
C1_Witness ==
    /\ Len(calls) = 2
    /\ calls[1].status = "fixed" /\ calls[1].after # calls[1].before
    /\ calls[2].status = "no changes" /\ calls[2].path = calls[1].path

\* rn(...r2(r1(content))...), from the last rule inwards
RECURSIVE Composed(_, _, _)
Composed(rs, n, text) ==
    IF n = 0 THEN text ELSE CallRule(rs[n], Composed(rs, n - 1, text))

\* C2: apply_rules(content, [r1, ..., rn]) returns rn(...r2(r1(content))...),
\* and the content itself for the empty list.
C2_ApplyRulesIsComposition ==
    (fn = "apply_rules" /\ passes = 1) =>
        /\ result = Composed(rules, Len(rules), content)
        /\ rules = <<>> => result = content

\* two rules were applied whose order matters, and the second changed what the
\* first returned
C2_Witness ==
    /\ fn = "apply_rules" /\ passes = 1 /\ Len(rules) = 2
    /\ CallRule(rules[1], content) # content
    /\ result # CallRule(rules[1], content)
    /\ result # CallRule(rules[1], CallRule(rules[2], content))
    /\ result # CallRule(rules[2], content)

\* the rule list the forced --rules set names
ForcedRules(choice) ==
    CASE choice = "CONTRIBUTING" -> CONTRIBUTING_RULES
      [] choice = "FAQ"          -> FAQ_RULES
      [] choice = "PRD"          -> PRD_RULES

\* the rule list a file of this name gets without an override
ByName(name) ==
    CASE name = "CONTRIBUTING.md"  -> CONTRIBUTING_RULES
      [] name = "FAQ.md"           -> FAQ_RULES
      [] name = "prd.md"           -> PRD_RULES
      [] name = "USER_GUIDE.md"    -> <<"MD012", "MD047">>
      [] name = "API_REFERENCE.md" -> <<"MD012", "MD047">>
      [] OTHER                     -> <<"MD012", "MD047">>

Registered == {"CONTRIBUTING.md", "FAQ.md", "prd.md", "USER_GUIDE.md", "API_REFERENCE.md"}

\* no run of 3 or more newlines, and exactly one newline at the end
Clean(text) ==
    /\ ~Contains(text, <<NL, NL, NL>>)
    /\ EndsWith(text, <<NL>>) /\ ~EndsWith(text, <<NL, NL>>)

\* the override of the run: --rules in a batch run, the rules argument in a
\* direct call
Override ==
    IF pc = "call" THEN call.rules
    ELSE IF argv.rules = None THEN None ELSE Some(ForcedRules(argv.rules[1]))

\* C3: the rule list used for a file is the override when there is one (an
\* empty list included), else the DOCUMENT_RULES entry of the file's exact
\* base name, else the two-rule fallback; so a file of an unregistered name
\* whose content has no run of 3+ newlines and ends in exactly one newline is
\* reported as no changes and is not written.
C3_RuleResolution ==
    \A k \in 1..Len(calls) :
        LET c == calls[k] IN
        c.before # None =>
            /\ c.used = IF Override # None THEN Override ELSE Some(ByName(c.path.name))
            /\ (Override = None /\ c.path.name \notin Registered /\ Clean(c.before[1]))
                   => c.status = "no changes" /\ ~Wrote(c) /\ c.after = c.before

\* a batch run without --rules met a clean file of an unregistered name and
\* a file of a registered name that it fixed
C3_Witness ==
    /\ pc = "done" /\ argv.rules = None /\ Len(calls) = 2
    /\ calls[1].path.name = "faq.md" /\ calls[1].before # None
    /\ Clean(calls[1].before[1]) /\ calls[1].status = "no changes"
    /\ calls[2].path.name = "FAQ.md" /\ calls[2].used = Some(FAQ_RULES)

\* C4: in a batch run a missing file is not fatal: the files are processed in
\* list order, those after a missing file included, nothing is written for a
\* missing file, and the count reported when the loop ends is the number of
\* files written.
C4_BatchRun ==
    pc \in {"loop", "done"} =>
        /\ Len(calls) = idx - 1
        /\ \A k \in 1..Len(calls) : calls[k].path = files_to_fix[k]
        /\ pc = "done" => Len(calls) = Len(files_to_fix)
        /\ \A k \in 1..Len(calls) :
               calls[k].before = None => ~Wrote(calls[k]) /\ calls[k].after = None
        /\ fixed_count = Cardinality({k \in 1..Len(calls) : Wrote(calls[k])})

\* a finished batch run in which a file after a missing file was written
C4_Witness ==
    /\ pc = "done" /\ Len(calls) = 2
    /\ calls[1].before = None
    /\ Wrote(calls[2]) /\ fixed_count = 1

\* the lines of a text
Lines(text) == Split(text, <<NL>>)

\* the split tokens of a line the line-length rule splits
Tokens(line) ==
    IF Contains(line, <<FWComma>>) THEN Split(line, <<FWComma>>)
    ELSE Split(line, <<".", " ">>)

\* C5: when the line-length rule splits a line, every line it makes of it is
\* at most max_len long, unless one split token is itself longer than max_len.
C5_SplitLinesWithinMaxLen ==
    (fn = "MD013" /\ passes = 1 /\ Len(Lines(content)) = 1 /\ Len(Lines(result)) > 1) =>
        \/ \E k \in 1..Len(Tokens(content)) : Len(Tokens(content)[k]) > max_len
        \/ \A k \in 1..Len(Lines(result)) : Len(Lines(result)[k]) <= max_len

\* line k of lines is a fence line, and opens (closes) a code block
IsFenceLine(line) == StartsWith(line, Fence)
FencesBefore(lines, k) == Cardinality({j \in 1..(k - 1) : IsFenceLine(lines[j])})
Opens(lines, k) == IsFenceLine(lines[k]) /\ FencesBefore(lines, k) % 2 = 0
Closes(lines, k) == IsFenceLine(lines[k]) /\ FencesBefore(lines, k) % 2 = 1

\* C6: the default-language rule changes nothing but the opening fence lines
\* that have no language tag and are followed by a newline, which it tags; a
\* closing fence line is left as it is.
C6_OnlyOpeningFencesTagged ==
    (fn = "MD040" /\ passes = 1) =>
        LET in == Lines(content)
            out == Lines(result)
        IN  /\ Len(out) = Len(in)
            /\ \A k \in 1..Len(in) :
                   \/ out[k] = in[k]
                   \/ /\ Opens(in, k) /\ in[k] = Fence /\ k < Len(in)
                      /\ out[k] = Fence \o <<"b", "a", "s", "h">>

\* every fence line has a blank line before it and a blank line after it
FencesSurrounded(lines) ==
    \A k \in 1..Len(lines) :
        IsFenceLine(lines[k]) =>
            /\ k > 1 /\ lines[k - 1] = <<>>
            /\ k < Len(lines) /\ lines[k + 1] = <<>>

\* block appears in lines as consecutive lines
HasBlock(lines, block) ==
    \E j \in 0..(Len(lines) - Len(block)) :
        \A k \in 1..Len(block) : lines[j + k] = block[k]

\* C7: the blank-lines-around-fences rule returns unchanged any content whose
\* fence lines all have a blank line before and after them, and never puts a
\* line inside a code block.
C7_BlankLinesOnlyWhereMissing ==
    (fn = "MD031" /\ passes = 1) =>
        LET in == Lines(content)
            out == Lines(result)
        IN  /\ FencesSurrounded(in) => result = content
            /\ \A a, b \in 1..Len(in) :
                   (a < b /\ Opens(in, a) /\ Closes(in, b) /\ FencesBefore(in, b) = FencesBefore(in, a) + 1)
                       => HasBlock(out, SubSeq(in, a, b))

\* C8: blank-line collapsing and trailing-newline normalization are
\* idempotent; collapsing leaves no run of 3 or more newlines, and
\* normalization leaves a text that ends in exactly one newline.
C8_BlankRulesIdempotent ==
    (fn \in {"MD012", "MD047"} /\ passes >= 1) =>
        /\ passes = 2 => result = prev
        /\ fn = "MD012" => ~Contains(result, <<NL, NL, NL>>)
        /\ fn = "MD047" => EndsWith(result, <<NL>>) /\ ~EndsWith(result, <<NL, NL>>)

\* a text of newlines only was normalized, and normalized again
C8_Witness ==
    /\ fn = "MD047" /\ passes = 2
    /\ Len(content) >= 3 /\ \A k \in 1..Len(content) : content[k] = NL
    /\ prev = <<NL>> /\ result = <<NL>>

\* the k-th line is the i-th level-3 heading of the lines
Occurrence(lines, k) == Cardinality({j \in 1..k : StartsWith(lines[j], H3)})

\* C9: on a document whose level-3 headings are all the line '### T', the
\* duplicate-heading rule leaves the first heading and every other line as
\* they are and makes the i-th heading '### T (i)'; a second pass over that
\* output changes nothing.
C9_DuplicateHeadingsNumbered ==
    (fn = "MD024" /\ passes >= 1) =>
        LET in == Lines(content)
            first == IF passes = 1 THEN result ELSE prev
            out == Lines(first)
        IN  /\ Len(out) = Len(in)
            /\ \A k \in 1..Len(in) :
                   out[k] = IF StartsWith(in[k], H3) /\ Occurrence(in, k) >= 2
                            THEN in[k] \o <<" ", "(">> \o IntToStr(Occurrence(in, k)) \o <<")">>
                            ELSE in[k]
            /\ passes = 2 => result = prev

\* three identical headings were numbered, and a second pass was made
C9_Witness ==
    /\ fn = "MD024" /\ passes = 2
    /\ Cardinality({k \in 1..Len(Lines(content)) : StartsWith(Lines(content)[k], H3)}) = 3
    /\ prev # content /\ result = prev
    /\ Contains(prev, <<"o", " ", "(", "3", ")">>)

\* C10: a second fix_markdown_file on a file, right after a first one with the
\* same rule list, reports no changes and does not write the file.
C10_SecondRunSkips ==
    \A k \in 2..Len(calls) :
        (/\ calls[k].path = calls[k - 1].path
         /\ calls[k].used = calls[k - 1].used
         /\ calls[k - 1].before # None)
            => calls[k].status = "no changes" /\ ~Wrote(calls[k])

====
